---- MODULE Spec2Model ----
(***************************************************************************)
(* Model of 20240618_tno_code_assessment_daniloremmers.py: the sequential  *)
(* analysis run by tag_analysis (read_csv_files, check_tag_connections,    *)
(* correct_tag_ids, verify_distances, contact aggregation, plot_positions).*)
(*                                                                         *)
(* Representation.                                                         *)
(*  - A Python str is the sequence of its code points ("A" is <<65>>).     *)
(*  - A DataFrame is the sequence of its rows (records); the default       *)
(*    RangeIndex of row k (1-based here) is k-1.                           *)
(*  - A distance is an integer number of 1e-8 m, so that the default       *)
(*    tolerances of numpy.isclose (atol 1e-8, rtol 1e-5) are exact.        *)
(*  - A float duration is an IEEE double, kept as its odd significand      *)
(*    (bits) and exponent, so that the product with 0.1 is rounded as in   *)
(*    the program.                                                         *)
(***************************************************************************)
EXTENDS Integers, Sequences, FiniteSets

VARIABLES
    fileA,                  \* content of TagA.csv on disk (rows)
    fileB,                  \* content of TagB.csv on disk (rows)
    filePos,                \* content of position.csv on disk (rows)
    numtags,                \* argument of read_csv_files
    person,                 \* loop variable of read_csv_files
    data_frames,            \* dict tag_var -> tagfilename
    tag_a_df,
    tag_b_df,
    position_df,            \* mutated in place by correct_tag_ids
    unique_tags_a,          \* printed by check_tag_connections
    unique_tags_b,
    flagged,                \* "Measurement Error" was printed
    next_available_letter,
    merged_tags,
    mismatched_distances,
    i,                      \* loop variable of verify_distances
    in_contact,
    uninterrupted_periods,
    contact_within_1_5m_a_pos,
    contact_within_1_5m_b_pos,
    total_contact_duration,
    plotted,                \* arguments received by plot_positions
    pc,                     \* position in tag_analysis
    err                     \* uncaught exception, "" if none

vars == <<fileA, fileB, filePos, numtags, person, data_frames, tag_a_df,
          tag_b_df, position_df, unique_tags_a, unique_tags_b, flagged,
          next_available_letter, merged_tags, mismatched_distances, i,
          in_contact, uninterrupted_periods, contact_within_1_5m_a_pos,
          contact_within_1_5m_b_pos, total_contact_duration, plotted, pc, err>>

----------------------------------------------------------------------------
(* Bounds of the explored inputs *)

MaxTags == 703          \* largest numtags given to read_csv_files
MaxContacts == 3        \* rows per tag file, connectivity checker inputs
MaxRows == 2            \* rows per tag file, distance verifier inputs
MaxTime == 1            \* timestamps 0..MaxTime, distance verifier inputs
MaxRunLen == 9          \* rows per tag file, run counter inputs
MaxPosRows == 4         \* rows of the position file, corrector inputs
MaxStamps == 5          \* timestamps of a two-rows-per-timestamp position file
MaxDurRows == 3         \* rows per tag file, duration inputs
MaxARows == 2           \* rows of tag A's file, contact point inputs
MaxPRows == 3           \* rows of the position file, contact point inputs

----------------------------------------------------------------------------
(* Strings *)

StrA == <<65>>
StrB == <<66>>
StrC == <<67>>
StrAA == <<65, 65>>

\* 'Tag' , '.csv' , 'tag_' , 'position.csv'
StrTag == <<84, 97, 103>>
StrCsv == <<46, 99, 115, 118>>
StrTagVar == <<116, 97, 103, 95>>
position_path == <<112, 111, 115, 105, 116, 105, 111, 110>> \o StrCsv

\* str.lower() on the code points used here
Lower(s) == [k \in 1..Len(s) |-> IF s[k] \in 65..90 THEN s[k] + 32 ELSE s[k]]

\* Python's str comparison: lexicographic on code points
RECURSIVE StrLess(_, _)
StrLess(s, t) ==
    IF s = <<>> THEN t # <<>>
    ELSE IF t = <<>> THEN FALSE
    ELSE IF s[1] # t[1] THEN s[1] < t[1]
    ELSE StrLess(Tail(s), Tail(t))

\* max() of a non-empty collection of str
StrMax(S) == CHOOSE m \in S : \A s \in S : s = m \/ StrLess(s, m)

----------------------------------------------------------------------------
(* Sequences *)

Range(s) == {s[k] : k \in 1..Len(s)}

SeqsUpTo(S, n) == UNION {[1..k -> S] : k \in 0..n}

\* mutant of Unique: only a value equal to its predecessor is dropped
UniqueAdjacent(s) ==
    LET first == SelectSeq([k \in 1..Len(s) |-> k],
                           LAMBDA k : k = 1 \/ s[k - 1] # s[k])
    IN [n \in 1..Len(first) |-> s[first[n]]]

\* Series.unique(): the distinct values in order of first appearance
Unique(s) ==
    LET first == SelectSeq([k \in 1..Len(s) |-> k],
                           LAMBDA k : \A j \in 1..(k - 1) : s[j] # s[k])
    IN [n \in 1..Len(first) |-> s[first[n]]]

Column(df, col) == [k \in 1..Len(df) |-> df[k][col]]

Min(a, b) == IF a <= b THEN a ELSE b

----------------------------------------------------------------------------
(* read_csv_files *)

\* the tag name generated for loop index p (letter1 / letters12)
TagLetters(p) ==
    IF p <= 25 THEN <<p + 65>>
    ELSE LET iteration == p \div 26
         IN <<iteration + 64, (p % 26) + 65>>

tagfilename(p) == StrTag \o TagLetters(p) \o StrCsv

tag_var(p) == StrTagVar \o Lower(TagLetters(p))

\* data_frames[key] = value
DictSet(d, key, value) ==
    [k \in (DOMAIN d) \cup {key} |-> IF k = key THEN value ELSE d[k]]

tag_a_path == StrTag \o StrA \o StrCsv
tag_b_path == StrTag \o StrB \o StrCsv

\* pd.read_csv(path): the rows of the file of that name
read_csv(path) ==
    IF path = tag_a_path THEN fileA
    ELSE IF path = tag_b_path THEN fileB
    ELSE IF path = position_path THEN filePos
    ELSE <<>>

\* one iteration of "for person in range(numtags)"
NameStep ==
    /\ pc = "names"
    /\ person < numtags
    /\ data_frames' = DictSet(data_frames, tag_var(person), tagfilename(person))
    /\ person' = person + 1
    /\ UNCHANGED <<fileA, fileB, filePos, numtags, tag_a_df, tag_b_df,
                   position_df, unique_tags_a, unique_tags_b, flagged,
                   next_available_letter, merged_tags, mismatched_distances, i,
                   in_contact, uninterrupted_periods, contact_within_1_5m_a_pos,
                   contact_within_1_5m_b_pos, total_contact_duration, plotted,
                   pc, err>>

\* after the loop: the three pd.read_csv calls (KeyError if a key is missing)
ReadCsv ==
    /\ pc = "names"
    /\ person = numtags
    /\ LET key_a == StrTagVar \o <<97>>
           key_b == StrTagVar \o <<98>>
       IN IF key_a \in DOMAIN data_frames /\ key_b \in DOMAIN data_frames
          THEN /\ tag_a_df' = read_csv(data_frames[key_a])
               /\ tag_b_df' = read_csv(data_frames[key_b])
               /\ position_df' = read_csv(position_path)
               /\ pc' = "check"
               /\ err' = err
          ELSE /\ pc' = "error"
               /\ err' = "KeyError"
               /\ UNCHANGED <<tag_a_df, tag_b_df, position_df>>
    /\ UNCHANGED <<fileA, fileB, filePos, numtags, person, data_frames,
                   unique_tags_a, unique_tags_b, flagged,
                   next_available_letter, merged_tags, mismatched_distances, i,
                   in_contact, uninterrupted_periods, contact_within_1_5m_a_pos,
                   contact_within_1_5m_b_pos, total_contact_duration, plotted>>

----------------------------------------------------------------------------
(* check_tag_connections *)

CheckTagConnections ==
    /\ pc = "check"
    /\ unique_tags_a' = Unique(Column(tag_a_df, "ContactID"))
    /\ unique_tags_b' = Unique(Column(tag_b_df, "ContactID"))
    /\ pc' = "correct"
    /\ UNCHANGED <<fileA, fileB, filePos, numtags, person, data_frames,
                   tag_a_df, tag_b_df, position_df, flagged,
                   next_available_letter, merged_tags, mismatched_distances, i,
                   in_contact, uninterrupted_periods, contact_within_1_5m_a_pos,
                   contact_within_1_5m_b_pos, total_contact_duration, plotted,
                   err>>

----------------------------------------------------------------------------
(* correct_tag_ids *)

\* mutant of DuplicateDetected: the row count is divided by a fixed two tags
DuplicateDetectedTwoTags(df, unique_tags) == Len(unique_tags) # Len(df) \div 2

\* len(unique_tags) != len(position_df) // len(unique_tags)
DuplicateDetected(df, unique_tags) ==
    Len(unique_tags) # Len(df) \div Len(unique_tags)

\* chr(ord(max(tag_ids)) + 1); ord() needs a str of length 1
NextAvailableLetter(tag_ids) == <<StrMax(Range(tag_ids))[1] + 1>>

\* mutant of Relabel: the rows at an even row index are relabelled
RelabelEven(df, letter) ==
    [k \in 1..Len(df) |->
        IF (k - 1) % 2 = 0 THEN [df[k] EXCEPT !.TagID = letter] ELSE df[k]]

\* position_df.loc[position_df.index % 2 == 1, 'TagID'] = letter
Relabel(df, letter) ==
    [k \in 1..Len(df) |->
        IF (k - 1) % 2 = 1 THEN [df[k] EXCEPT !.TagID = letter] ELSE df[k]]

CorrectTagIds ==
    /\ pc = "correct"
    /\ LET unique_tags == Unique(Column(position_df, "TagID"))
       IN IF Len(unique_tags) = 0
          THEN /\ pc' = "error"
               /\ err' = "ZeroDivisionError"
               /\ UNCHANGED <<position_df, flagged, next_available_letter>>
          ELSE IF DuplicateDetected(position_df, unique_tags)
          THEN /\ flagged' = TRUE
               /\ IF Len(StrMax(Range(unique_tags))) # 1
                  THEN /\ pc' = "error"
                       /\ err' = "TypeError"
                       /\ UNCHANGED <<position_df, next_available_letter>>
                  ELSE /\ next_available_letter' = NextAvailableLetter(unique_tags)
                       /\ position_df' =
                              Relabel(position_df, NextAvailableLetter(unique_tags))
                       /\ pc' = "verify"
                       /\ err' = err
          ELSE /\ pc' = "verify"
               /\ UNCHANGED <<position_df, flagged, next_available_letter, err>>
    /\ UNCHANGED <<fileA, fileB, filePos, numtags, person, data_frames,
                   tag_a_df, tag_b_df, unique_tags_a, unique_tags_b,
                   merged_tags, mismatched_distances, i,
                   in_contact, uninterrupted_periods, contact_within_1_5m_a_pos,
                   contact_within_1_5m_b_pos, total_contact_duration, plotted>>

----------------------------------------------------------------------------
(* verify_distances *)

Threshold == 150000000      \* 1.5 m
Atol == 1                   \* numpy.isclose default atol, 1e-8
RtolInv == 100000           \* numpy.isclose default rtol, 1e-5, inverted

Abs(x) == IF x < 0 THEN 0 - x ELSE x

\* np.isclose(a, b): |a - b| <= atol + rtol * |b|   (integers: exact with \div)
IsClose(a, b) == Abs(a - b) <= Atol + (Abs(b) \div RtolInv)

\* pd.merge(left, right, on='Time [s]'): inner join, every pair of rows with
\* the same timestamp, in the order of the left rows (the columns of a pair
\* are put together by TagsRow / PosRow)
Merge(left, right) ==
    LET pairs == [n \in 1..(Len(left) * Len(right)) |->
                     <<((n - 1) \div Len(right)) + 1, ((n - 1) % Len(right)) + 1>>]
        match == SelectSeq(pairs, LAMBDA p : left[p[1]].Time = right[p[2]].Time)
    IN [n \in 1..Len(match) |-> <<left[match[n][1]], right[match[n][2]]>>]

\* suffixes=('_A', '_B')
TagsRow(a, b) ==
    [Time |-> a.Time, ContactID_A |-> a.ContactID, Distance_A |-> a.Distance,
     ContactID_B |-> b.ContactID, Distance_B |-> b.Distance]

\* mutant of MergeTags: every row of A is joined with every row of B
MergeTagsCross(a_df, b_df) ==
    [n \in 1..(Len(a_df) * Len(b_df)) |->
        TagsRow(a_df[((n - 1) \div Len(b_df)) + 1], b_df[((n - 1) % Len(b_df)) + 1])]

MergeTags(a_df, b_df) ==
    LET m == Merge(a_df, b_df) IN [n \in 1..Len(m) |-> TagsRow(m[n][1], m[n][2])]

\* mutant of Mismatched: the negation of the mask is missing
MismatchedNoNegation(merged) ==
    SelectSeq(merged, LAMBDA r : IsClose(r.Distance_A, r.Distance_B))

\* merged_tags[~merged_tags['distance_match']]
Mismatched(merged) ==
    SelectSeq(merged, LAMBDA r : ~IsClose(r.Distance_A, r.Distance_B))

\* within_1_5m.iloc[k] for the row r at that place
Within(r) == r.Distance_A <= Threshold /\ r.Distance_B <= Threshold

\* mutant of CountBody: in_contact is not reset by a row beyond the threshold
CountBodyNoReset(within, periods, contact) ==
    IF within
    THEN (IF ~contact THEN <<periods + 1, TRUE>> ELSE <<periods, contact>>)
    ELSE <<periods, contact>>

\* the loop body's effect on <<uninterrupted_periods, in_contact>>
CountBody(within, periods, contact) ==
    IF within
    THEN (IF ~contact THEN <<periods + 1, TRUE>> ELSE <<periods, contact>>)
    ELSE <<periods, FALSE>>

\* the merge, the mismatch report and the loop's initialisation
VerifyMerge ==
    /\ pc = "verify"
    /\ merged_tags' = MergeTags(tag_a_df, tag_b_df)
    /\ mismatched_distances' = Mismatched(MergeTags(tag_a_df, tag_b_df))
    /\ uninterrupted_periods' = 0
    /\ in_contact' = FALSE
    /\ i' = 0
    /\ pc' = "count"
    /\ UNCHANGED <<fileA, fileB, filePos, numtags, person, data_frames,
                   tag_a_df, tag_b_df, position_df, unique_tags_a,
                   unique_tags_b, flagged, next_available_letter,
                   contact_within_1_5m_a_pos, contact_within_1_5m_b_pos,
                   total_contact_duration, plotted, err>>

\* one iteration of "for i in range(len(within_1_5m))"
CountStep ==
    /\ pc = "count"
    /\ i < Len(merged_tags)
    /\ LET r == CountBody(Within(merged_tags[i + 1]), uninterrupted_periods,
                          in_contact)
       IN /\ uninterrupted_periods' = r[1]
          /\ in_contact' = r[2]
    /\ i' = i + 1
    /\ UNCHANGED <<fileA, fileB, filePos, numtags, person, data_frames,
                   tag_a_df, tag_b_df, position_df, unique_tags_a,
                   unique_tags_b, flagged, next_available_letter, merged_tags,
                   mismatched_distances, contact_within_1_5m_a_pos,
                   contact_within_1_5m_b_pos, total_contact_duration, plotted,
                   pc, err>>

\* the loop is over: the count is printed and verify_distances returns
CountDone ==
    /\ pc = "count"
    /\ i = Len(merged_tags)
    /\ pc' = "aggregate"
    /\ UNCHANGED <<fileA, fileB, filePos, numtags, person, data_frames,
                   tag_a_df, tag_b_df, position_df, unique_tags_a,
                   unique_tags_b, flagged, next_available_letter, merged_tags,
                   mismatched_distances, i, in_contact, uninterrupted_periods,
                   contact_within_1_5m_a_pos, contact_within_1_5m_b_pos,
                   total_contact_duration, plotted, err>>

----------------------------------------------------------------------------
(* tag_analysis, lines 120-134, and plot_positions *)

\* The float 0.1 (each time step): the IEEE double 7205759403792794 * 2^-56,
\* its significand in 20-bit limbs, least significant first
SampleInterval == [limbs |-> <<629146, 629145, 6553>>, exp |-> 0 - 56]

\* the w low bits of x, least significant first
Bits(x, w) == [k \in 1..w |-> (x \div 2^(k - 1)) % 2]

\* the exact product of the int n (below 2^11) and a significand, as bits
ProductBits(n, limbs) ==
    LET t0 == n * limbs[1]
        t1 == n * limbs[2] + (t0 \div 2^20)
        t2 == n * limbs[3] + (t1 \div 2^20)
    IN Bits(t0 % 2^20, 20) \o Bits(t1 % 2^20, 20) \o Bits(t2, 30)

\* the places of the highest and the lowest 1 bit (0 if there is none)
TopBit(b) ==
    IF \E k \in 1..Len(b) : b[k] = 1
    THEN CHOOSE k \in 1..Len(b) : b[k] = 1 /\ \A j \in (k + 1)..Len(b) : b[j] = 0
    ELSE 0

LowBit(b) ==
    IF \E k \in 1..Len(b) : b[k] = 1
    THEN CHOOSE k \in 1..Len(b) : b[k] = 1 /\ \A j \in 1..(k - 1) : b[j] = 0
    ELSE 0

\* b + 1
Increment(b) ==
    LET j == IF \E k \in 1..Len(b) : b[k] = 0
             THEN CHOOSE k \in 1..Len(b) : b[k] = 0 /\ \A l \in 1..(k - 1) : b[l] = 1
             ELSE Len(b) + 1
    IN [k \in 1..(IF j > Len(b) THEN j ELSE Len(b)) |->
           IF k < j THEN 0 ELSE IF k = j THEN 1 ELSE b[k]]

\* a double as its odd significand (bits, least significant first) and the
\* exponent of its lowest bit; 0.0 has no bits
Double(b, exp) ==
    IF TopBit(b) = 0 THEN [bits |-> <<>>, exp |-> 0]
    ELSE [bits |-> SubSeq(b, LowBit(b), TopBit(b)), exp |-> exp + LowBit(b) - 1]

\* the value b * 2^exp rounded to 53 significant bits, to nearest, ties to even
RoundDouble(b, exp) ==
    LET h == TopBit(b)
        s == IF h > 53 THEN h - 53 ELSE 0
        kept == SubSeq(b, s + 1, h)
        up == /\ s > 0
              /\ b[s] = 1
              /\ ((\E k \in 1..(s - 1) : b[k] = 1) \/ kept[1] = 1)
    IN Double(IF up THEN Increment(kept) ELSE kept, exp + s)

\* n * d for an int n and a double d
TimesDouble(n, d) == RoundDouble(ProductBits(n, d.limbs), d.exp)

\* mutant of ContactWithin: a distance of exactly 1.5 m is left out
ContactWithinStrict(df) == SelectSeq(df, LAMBDA r : r.Distance < Threshold)

\* df[df['Distance [m]'] <= 1.5]
ContactWithin(df) == SelectSeq(df, LAMBDA r : r.Distance <= Threshold)

\* position_df[position_df['TagID'] == tag]
PositionOf(df, tag) == SelectSeq(df, LAMBDA r : r.TagID = tag)

PosRow(c, p) ==
    [Time |-> c.Time, ContactID |-> c.ContactID, Distance |-> c.Distance,
     TagID |-> p.TagID, x |-> p.x, y |-> p.y]

\* pd.merge(contact, position_df[position_df['TagID'] == tag], on='Time [s]')
ContactPos(contact, pos_df, tag) ==
    LET m == Merge(contact, PositionOf(pos_df, tag))
    IN [n \in 1..Len(m) |-> PosRow(m[n][1], m[n][2])]

\* mutant of TotalContactDuration: the larger count is taken
TotalContactDurationMax(contact_a, contact_b) ==
    TimesDouble(IF Len(contact_a) >= Len(contact_b) THEN Len(contact_a)
                ELSE Len(contact_b), SampleInterval)

\* min(len(contact_within_1_5m_a), len(contact_within_1_5m_b)) * 0.1
TotalContactDuration(contact_a, contact_b) ==
    TimesDouble(Min(Len(contact_a), Len(contact_b)), SampleInterval)

Aggregate ==
    /\ pc = "aggregate"
    /\ contact_within_1_5m_a_pos' =
           ContactPos(ContactWithin(tag_a_df), position_df, StrA)
    /\ contact_within_1_5m_b_pos' =
           ContactPos(ContactWithin(tag_b_df), position_df, StrB)
    /\ total_contact_duration' =
           TotalContactDuration(ContactWithin(tag_a_df), ContactWithin(tag_b_df))
    /\ pc' = "plot"
    /\ UNCHANGED <<fileA, fileB, filePos, numtags, person, data_frames,
                   tag_a_df, tag_b_df, position_df, unique_tags_a,
                   unique_tags_b, flagged, next_available_letter, merged_tags,
                   mismatched_distances, i, in_contact, uninterrupted_periods,
                   plotted, err>>

\* plot_positions(position_df_corrected, contact_within_1_5m_a_pos)
PlotPositions ==
    /\ pc = "plot"
    /\ plotted' = [position_a |-> PositionOf(position_df, StrA),
                   position_b |-> PositionOf(position_df, StrB),
                   contact_within_1_5m |-> contact_within_1_5m_a_pos]
    /\ pc' = "done"
    /\ UNCHANGED <<fileA, fileB, filePos, numtags, person, data_frames,
                   tag_a_df, tag_b_df, position_df, unique_tags_a,
                   unique_tags_b, flagged, next_available_letter, merged_tags,
                   mismatched_distances, i, in_contact, uninterrupted_periods,
                   contact_within_1_5m_a_pos, contact_within_1_5m_b_pos,
                   total_contact_duration, err>>

----------------------------------------------------------------------------
(* The run: tag_analysis(tag_a_path, tag_b_path, position_path, numtags) *)

\* the state at the call of tag_analysis, with these files on disk
Start(fa, fb, fp, n) ==
    /\ fileA = fa
    /\ fileB = fb
    /\ filePos = fp
    /\ numtags = n
    /\ person = 0
    /\ data_frames = <<>>
    /\ tag_a_df = <<>>
    /\ tag_b_df = <<>>
    /\ position_df = <<>>
    /\ unique_tags_a = <<>>
    /\ unique_tags_b = <<>>
    /\ flagged = FALSE
    /\ next_available_letter = <<>>
    /\ merged_tags = <<>>
    /\ mismatched_distances = <<>>
    /\ i = 0
    /\ in_contact = FALSE
    /\ uninterrupted_periods = 0
    /\ contact_within_1_5m_a_pos = <<>>
    /\ contact_within_1_5m_b_pos = <<>>
    /\ total_contact_duration = <<>>
    /\ plotted = <<>>
    /\ pc = "names"
    /\ err = ""

Next ==
    \/ NameStep
    \/ ReadCsv
    \/ CheckTagConnections
    \/ CorrectTagIds
    \/ VerifyMerge
    \/ CountStep
    \/ CountDone
    \/ Aggregate
    \/ PlotPositions

----------------------------------------------------------------------------
(* Input files *)

TagRow(t, c, d) == [Time |-> t, ContactID |-> c, Distance |-> d]

PosRecord(t, id, px, py) == [Time |-> t, TagID |-> id, x |-> px, y |-> py]

\* distances, in 1e-8 m: 1.0, 1.5, 1.50001 (isclose to 1.5, above it), 2.0
Dist10 == Threshold - 50000000
Dist15 == Threshold
Dist15p == Threshold + 1000
Dist20 == Threshold + 50000000

\* a tag file whose k-th row has timestamp k-1
Timed(rows) == [k \in 1..Len(rows) |-> [rows[k] EXCEPT !.Time = k - 1]]

\* a position file whose k-th row has coordinates (k, 10 - k)
Placed(rows) == [k \in 1..Len(rows) |-> [rows[k] EXCEPT !.x = k, !.y = 10 - k]]

\* files used where a component's input is not the one explored
SmallTagA == <<TagRow(0, StrB, Dist10), TagRow(1, StrB, Dist20)>>
SmallTagB == <<TagRow(0, StrA, Dist10), TagRow(1, StrA, Dist20)>>
SmallPos ==
    <<PosRecord(0, StrA, 1, 1), PosRecord(0, StrB, 2, 2),
      PosRecord(1, StrA, 3, 3), PosRecord(1, StrB, 4, 4)>>

----------------------------------------------------------------------------
(* Specifications: the same run, over different families of input files *)

\* the loader's naming loop, for small and large tag counts
InitLoader ==
    \E n \in {0, 1, 2, 3, 26, 27, 52, 53, MaxTags} :
        Start(SmallTagA, SmallTagB, SmallPos, n)

SpecLoader == InitLoader /\ [][Next]_vars

\* tag files with any contact identifiers
ContactFiles ==
    {Timed(f) : f \in SeqsUpTo({TagRow(0, c, Dist10) : c \in {StrA, StrB, StrC}},
                               MaxContacts)}

InitConn ==
    \E fa \in ContactFiles, fb \in ContactFiles : Start(fa, fb, SmallPos, 2)

SpecConn == InitConn /\ [][Next]_vars

\* tag files with any timestamps (repeated or not) and distances
VerifyFilesA ==
    SeqsUpTo({TagRow(t, StrB, d) : t \in 0..MaxTime,
                                   d \in {Dist10, Dist15, Dist15p}},
             MaxRows)

VerifyFilesB ==
    SeqsUpTo({TagRow(t, StrA, d) : t \in 0..MaxTime, d \in {Dist10, Dist15}},
             MaxRows)

InitVerify ==
    \E fa \in VerifyFilesA, fb \in VerifyFilesB : Start(fa, fb, SmallPos, 2)

SpecVerify == InitVerify /\ [][Next]_vars

\* tag files that join row by row into any sequence of within-threshold
\* flags; a row that is not within has A's, B's or both distances above 1.5 m
RunFile(flags, c, above) ==
    [k \in 1..Len(flags) |->
        TagRow(k - 1, c, IF flags[k] \/ ~above THEN Dist10 ELSE Dist20)]

InitRuns ==
    \E flags \in SeqsUpTo(BOOLEAN, MaxRunLen), far \in {"A", "B", "AB"} :
        Start(RunFile(flags, StrB, far # "B"), RunFile(flags, StrA, far # "A"),
              SmallPos, 2)

SpecRuns == InitRuns /\ [][Next]_vars

\* position files with any labelling
PosFiles(ids, times, n) ==
    {Placed(f) : f \in SeqsUpTo({PosRecord(t, id, 0, 0) : t \in times, id \in ids}, n)}

\* a position file of n timestamps, each with a row id1 then a row id2
PairedFile(n, id1, id2) ==
    Placed([k \in 1..(2 * n) |->
        PosRecord((k - 1) \div 2, IF k % 2 = 1 THEN id1 ELSE id2, 0, 0)])

InitCorrect ==
    \/ \E fp \in PosFiles({StrA, StrB, StrAA}, {0, 1}, MaxPosRows) :
           Start(SmallTagA, SmallTagB, fp, 2)
    \/ \E n \in 0..MaxStamps, id2 \in {StrA, StrB} :
           Start(SmallTagA, SmallTagB, PairedFile(n, StrA, id2), 2)

SpecCorrect == InitCorrect /\ [][Next]_vars

\* tag files with any number of rows within 1.5 m, and the files with 50 and
\* 40 such rows (and some rows beyond 1.5 m)
DurationFiles(c) ==
    {Timed(f) : f \in SeqsUpTo({TagRow(0, c, d) : d \in {Dist10, Dist15, Dist20}},
                               MaxDurRows)}

CountedFile(c, n, m) ==
    [k \in 1..(n + m) |-> TagRow(k - 1, c, IF k <= n THEN Dist10 ELSE Dist20)]

InitDuration ==
    \/ \E fa \in DurationFiles(StrB), fb \in DurationFiles(StrA) :
           Start(fa, fb, SmallPos, 2)
    \/ Start(CountedFile(StrB, 50, 2), CountedFile(StrA, 40, 3), SmallPos, 2)

SpecDuration == InitDuration /\ [][Next]_vars

\* the whole analysis: any tag A file and any position file
Init ==
    \E fa \in SeqsUpTo({TagRow(t, StrB, d) : t \in {0, 1}, d \in {Dist15, Dist20}},
                       MaxARows),
       fp \in PosFiles({StrA, StrB}, {0, 1}, MaxPRows) :
        Start(fa, SmallTagB, fp, 2)

Spec == Init /\ [][Next]_vars

----------------------------------------------------------------------------
(* Vocabulary of the properties *)

\* correct_tag_ids has returned
Corrected == pc \in {"verify", "count", "aggregate", "plot", "done"}

\* verify_distances has merged and reported the mismatches
Verified == pc \in {"count", "aggregate", "plot", "done"}

\* verify_distances has returned
Counted == pc \in {"aggregate", "plot", "done"}

Times(df) == {df[k].Time : k \in 1..Len(df)}

Ids(df) == {df[k].TagID : k \in 1..Len(df)}

\* the rows of df with timestamp t and tag identifier id
RowsAt(df, t, id) == {k \in 1..Len(df) : df[k].Time = t /\ df[k].TagID = id}

----------------------------------------------------------------------------
(* C1 *)

\* exactly two identifiers, each exactly once at every timestamp
TwoTagsNoCollision(df) ==
    /\ Cardinality(Ids(df)) = 2
    /\ \A t \in Times(df), id \in Ids(df) : Cardinality(RowsAt(df, t, id)) = 1

\* C1: a position dataset with exactly two tag identifiers and no timestamp
\* carrying an identifier twice is returned unchanged by correct_tag_ids:
\* no row's TagID is relabelled.
C1_ReturnedUnchanged ==
    (Corrected /\ TwoTagsNoCollision(filePos)) => position_df = filePos

----------------------------------------------------------------------------
(* C3 *)

\* non-empty, ordered by timestamp, every row labelled "A", two rows per timestamp
EveryTimestampTwiceA(df) ==
    /\ Len(df) > 0
    /\ Ids(df) = {StrA}
    /\ \A k \in 1..(Len(df) - 1) : df[k].Time <= df[k + 1].Time
    /\ \A t \in Times(df) : Cardinality(RowsAt(df, t, StrA)) = 2

\* C3: on a position dataset in which every timestamp has two rows labelled
\* "A" (ordered by timestamp), correct_tag_ids raises nothing and relabels to
\* the new identifier "B" so that every timestamp has exactly one row "A" and
\* exactly one row "B".
C3_AlternateRelabel ==
    (pc \notin {"names", "check", "correct"} /\ EveryTimestampTwiceA(filePos))
        => /\ Corrected
           /\ err = ""
           /\ flagged
           /\ next_available_letter = StrB
           /\ Len(position_df) = Len(filePos)
           /\ Ids(position_df) = {StrA, StrB}
           /\ \A t \in Times(filePos) :
                /\ Cardinality(RowsAt(position_df, t, StrA)) = 1
                /\ Cardinality(RowsAt(position_df, t, StrB)) = 1

C3_Witness ==
    /\ pc = "verify"
    /\ EveryTimestampTwiceA(filePos)
    /\ Cardinality(Times(filePos)) = 2
    /\ position_df # filePos

----------------------------------------------------------------------------
(* C9 *)

\* m is the maximum of the identifiers of df
IsMaxId(df, m) == m \in Ids(df) /\ \A s \in Ids(df) : s = m \/ StrLess(s, m)

\* C9: when correct_tag_ids flags the error and assigns an identifier, that
\* identifier is the successor of the maximum identifier of the dataset and
\* is not in the dataset before; the rows at an odd row index carry it
\* afterwards, the rows at an even index keep their TagID, and no row's
\* timestamp or coordinates change.
C9_OddRowsRelabelled ==
    (Corrected /\ flagged)
        => /\ \E m \in Ids(filePos) :
                /\ IsMaxId(filePos, m)
                /\ Len(m) = 1
                /\ next_available_letter = <<m[1] + 1>>
           /\ next_available_letter \notin Ids(filePos)
           /\ Len(position_df) = Len(filePos)
           /\ \A k \in 1..Len(filePos) :
                /\ position_df[k].Time = filePos[k].Time
                /\ position_df[k].x = filePos[k].x
                /\ position_df[k].y = filePos[k].y
                /\ (k - 1) % 2 = 1 => position_df[k].TagID = next_available_letter
                /\ (k - 1) % 2 = 0 => position_df[k].TagID = filePos[k].TagID

C9_Witness ==
    /\ pc = "verify"
    /\ flagged
    /\ Len(filePos) = 3
    /\ Ids(filePos) = {StrA, StrB}
    /\ next_available_letter = StrC

----------------------------------------------------------------------------
(* C2 *)

\* both distances of joined row k are at most 1.5 m
WithinAt(k) ==
    /\ merged_tags[k].Distance_A <= Threshold
    /\ merged_tags[k].Distance_B <= Threshold

\* the rows among the first n joined rows at which a maximal run of
\* within-threshold rows starts
RunStarts(n) == {k \in 1..n : WithinAt(k) /\ (k = 1 \/ ~WithinAt(k - 1))}

ExampleFlags == <<TRUE, TRUE, FALSE, TRUE, TRUE, TRUE, FALSE, FALSE, TRUE>>

JoinedFlags == [k \in 1..Len(merged_tags) |-> WithinAt(k)]

\* C2: after i joined rows the counter is the number of within-threshold rows
\* among them that are the first row or follow a row not within threshold;
\* at the end it is the number of maximal runs, 3 for the flags
\* [T,T,F,T,T,T,F,F,T].
C2_CountsMaximalRuns ==
    /\ Verified => /\ uninterrupted_periods = Cardinality(RunStarts(i))
                   /\ in_contact = (i > 0 /\ WithinAt(i))
    /\ Counted => /\ i = Len(merged_tags)
                  /\ JoinedFlags = ExampleFlags => uninterrupted_periods = 3

C2_Witness ==
    /\ pc = "aggregate"
    /\ JoinedFlags = ExampleFlags
    /\ uninterrupted_periods = 3

----------------------------------------------------------------------------
(* C4 *)

\* the distances differ by more than numpy.isclose's default tolerance
BeyondTolerance(a, b) == Abs(a - b) > Atol + (Abs(b) \div RtolInv)

\* the same timestamps row by row
SameTimestampRows ==
    /\ Len(fileA) = Len(fileB)
    /\ \A k \in 1..Len(fileA) : fileA[k].Time = fileB[k].Time

\* the rows at which the two files' distances differ
ChangedRows == {k \in 1..Len(fileA) : fileA[k].Distance # fileB[k].Distance}

\* C4 as stated: files with identical timestamps and identical distances
\* give zero mismatched rows; with the distance of exactly one row changed
\* beyond the tolerance, exactly one mismatched row.
C4_OneMismatchPerChangedRow ==
    (Verified /\ SameTimestampRows)
        => /\ ChangedRows = {} => Len(mismatched_distances) = 0
           /\ \A k \in 1..Len(fileA) :
                (ChangedRows = {k}
                    /\ BeyondTolerance(fileA[k].Distance, fileB[k].Distance))
                    => Len(mismatched_distances) = 1

\* no timestamp occurs twice in the file
UniqueTimes(df) == \A j, k \in 1..Len(df) : df[j].Time = df[k].Time => j = k

DistanceAt(df, t) == df[CHOOSE k \in 1..Len(df) : df[k].Time = t].Distance

\* the timestamps at which the two files' distances differ
ChangedTimes ==
    {t \in Times(fileA) : DistanceAt(fileA, t) # DistanceAt(fileB, t)}

\* C4, amended: for files in which no timestamp occurs twice and that have the
\* same timestamps, identical distances give zero mismatched rows, and one
\* distance changed beyond the tolerance gives exactly one mismatched row,
\* the row of that timestamp.
C4_OneMismatchUniqueTimes ==
    (Verified /\ UniqueTimes(fileA) /\ UniqueTimes(fileB)
        /\ Times(fileA) = Times(fileB))
        => /\ ChangedTimes = {} => Len(mismatched_distances) = 0
           /\ \A t \in Times(fileA) :
                (ChangedTimes = {t}
                    /\ BeyondTolerance(DistanceAt(fileA, t), DistanceAt(fileB, t)))
                    => /\ Len(mismatched_distances) = 1
                       /\ mismatched_distances[1].Time = t

C4_Witness ==
    /\ pc = "aggregate"
    /\ UniqueTimes(fileA) /\ UniqueTimes(fileB)
    /\ Times(fileA) = Times(fileB)
    /\ Cardinality(Times(fileA)) = 2
    /\ Cardinality(ChangedTimes) = 1
    /\ Len(mismatched_distances) = 1

----------------------------------------------------------------------------
(* C8 *)

\* C8: when the two files share no timestamp, verify_distances raises
\* nothing, the join is empty, no mismatch is reported and no uninterrupted
\* period is counted.
C8_EmptyJoin ==
    (pc \notin {"names", "check", "correct", "verify"}
        /\ Times(fileA) \cap Times(fileB) = {})
        => /\ Verified
           /\ err = ""
           /\ merged_tags = <<>>
           /\ mismatched_distances = <<>>
           /\ uninterrupted_periods = 0

C8_Witness ==
    /\ pc = "aggregate"
    /\ fileA # <<>>
    /\ fileB # <<>>
    /\ Times(fileA) \cap Times(fileB) = {}
    /\ uninterrupted_periods = 0

----------------------------------------------------------------------------
(* C7 *)

ContactIds(df) == {df[k].ContactID : k \in 1..Len(df)}

NoRepeat(s) == \A j, k \in 1..Len(s) : s[j] = s[k] => j = k

\* C7: check_tag_connections reports, for each reading set, exactly the
\* distinct ContactID values of the set, each once, and leaves both reading
\* sets as they were read.
C7_ReportsDistinctContacts ==
    (pc \notin {"names", "check"})
        => /\ Range(unique_tags_a) = ContactIds(fileA)
           /\ Range(unique_tags_b) = ContactIds(fileB)
           /\ NoRepeat(unique_tags_a)
           /\ NoRepeat(unique_tags_b)
           /\ tag_a_df = fileA
           /\ tag_b_df = fileB

C7_Witness ==
    /\ pc = "correct"
    /\ Len(fileA) = 3
    /\ Cardinality(ContactIds(fileA)) = 2
    /\ Len(unique_tags_a) = 2
    /\ Cardinality(ContactIds(fileB)) = 3

----------------------------------------------------------------------------
(* C5 *)

\* the number of rows of the file with distance <= 1.5 m
CountWithin(df) == Cardinality({k \in 1..Len(df) : df[k].Distance <= Threshold})

\* the double 4.0 = 1 * 2^2
Double4 == [bits |-> <<1>>, exp |-> 2]

\* C5: the total contact duration is min(count_A, count_B) * 0.1 (the
\* program's float product), the counts taken on the reading sets themselves;
\* for 50 and 40 rows it is 4.0.
C5_DurationIsMinCount ==
    (pc \in {"plot", "done"})
        => /\ total_contact_duration
                 = TimesDouble(Min(CountWithin(fileA), CountWithin(fileB)),
                               SampleInterval)
           /\ (CountWithin(fileA) = 50 /\ CountWithin(fileB) = 40)
                 => total_contact_duration = Double4

C5_Witness ==
    /\ pc = "done"
    /\ CountWithin(fileA) = 50
    /\ CountWithin(fileB) = 40
    /\ Len(fileA) > Len(contact_within_1_5m_a_pos)
    /\ total_contact_duration = Double4

----------------------------------------------------------------------------
(* C10 *)

\* the pairs (row of tag A's readings within 1.5 m, row of the corrected
\* position dataset labelled "A") that share a timestamp
ContactPairs ==
    {p \in (1..Len(tag_a_df)) \X (1..Len(position_df)) :
        /\ tag_a_df[p[1]].Distance <= Threshold
        /\ position_df[p[2]].TagID = StrA
        /\ tag_a_df[p[1]].Time = position_df[p[2]].Time}

PairRecord(p) == PosRow(tag_a_df[p[1]], position_df[p[2]])

Occurrences(s, r) == Cardinality({k \in 1..Len(s) : s[k] = r})

\* C10: the contact points given to plot_positions hold exactly one record
\* for each pair of a tag A reading within 1.5 m and a row labelled "A" of
\* the position dataset as correct_tag_ids left it, that share a timestamp,
\* and no other record.
C10_ContactPoints ==
    (pc = "done")
        => LET points == plotted.contact_within_1_5m
           IN /\ Len(points) = Cardinality(ContactPairs)
              /\ \A p \in ContactPairs :
                    Occurrences(points, PairRecord(p))
                        = Cardinality({q \in ContactPairs :
                                          PairRecord(q) = PairRecord(p)})
              /\ \A k \in 1..Len(points) :
                    /\ points[k].Distance <= Threshold
                    /\ points[k].TagID = StrA
                    /\ \E p \in ContactPairs : points[k] = PairRecord(p)

C10_Witness ==
    /\ pc = "done"
    /\ flagged
    /\ position_df # filePos
    /\ Len(plotted.contact_within_1_5m) = 1
    /\ \E k \in 1..Len(fileA) : fileA[k].Distance > Threshold
    /\ \E k \in 1..Len(position_df) :
          /\ position_df[k].TagID # StrA
          /\ position_df[k].Time \in Times(fileA)

----------------------------------------------------------------------------
(* C6 *)

\* the (n+1)-th spreadsheet column name: A..Z, AA..AZ, BA.., ZZ, AAA..
RECURSIVE ColumnName(_)
ColumnName(n) ==
    IF n < 26 THEN <<65 + n>>
    ELSE ColumnName((n \div 26) - 1) \o <<65 + (n % 26)>>

OnlyLetters(s) == \A k \in 1..Len(s) : s[k] \in 65..90

\* the identifier that data_frames maps to a file name, given its key
IdOfKey(key) == SubSeq(data_frames[key], 4, Len(data_frames[key]) - 4)

\* C6: for every tag index n generated so far, the identifier is the
\* (n+1)-th spreadsheet column name and is mapped to 'Tag<identifier>.csv';
\* the identifiers are letters A-Z only and pairwise distinct.
C6_SpreadsheetNames ==
    /\ \A n \in 0..(person - 1) :
          LET key == StrTagVar \o Lower(ColumnName(n))
          IN /\ key \in DOMAIN data_frames
             /\ data_frames[key] = StrTag \o ColumnName(n) \o StrCsv
    /\ \A key \in DOMAIN data_frames : OnlyLetters(IdOfKey(key))
    /\ Cardinality({IdOfKey(key) : key \in DOMAIN data_frames}) = person

====
